---- MODULE Spec2Model ----
(***************************************************************************)
(* A model of the rust-sugiyama layering core: the network-simplex rank    *)
(* assignment (algorithm/p1_layering), the tight-tree depth-first search   *)
(* (phases/p1_layering), the graph construction entry points (lib.rs) and  *)
(* the Brandes-Koepf conflict marking and vertical alignment on the test   *)
(* layout (phases/p3_calculate_coordinates/tests.rs).                      *)
(***************************************************************************)
EXTENDS Integers, Sequences, FiniteSets, TLC

\* Bounds of the model: vertices, edges and minimum_length of the input DAGs.
MaxV == 5
MaxE == 6
MaxMinLen == 2

\* The loop iterations of rank() are counted up to this number.
MaxIterations == 3

\* Bounds of the trees handed to init_cutvalues of graphs/p1_layering: up to
\* MaxTreeV vertices and MaxTreeE edges, those of the tree included.
MaxTreeV == 6
MaxTreeE == 6

\* Bounds of the rankings handed to move_roots_to_top: the graphs have up to
\* MaxRootsV vertices and MaxRootsE edges, the ranks are 0 .. MaxRank.
MaxRootsV == 4
MaxRootsE == 3
MaxRank == 3

\* Bounds of the inputs of from_edges and from_vertices_and_edges: the vertex ids
\* are 0 .. NumIds - 1, and the two slices hold up to MaxVertices ids and up to
\* MaxInputEdges pairs of ids.
NumIds == 2
MaxVertices == 2
MaxInputEdges == 2

\* Option<i32>: None is the empty tuple, Some(x) the tuple <<x>>.
None == <<>>

Some(x) == <<x>>

VARIABLES
    node_count,       \* graph.node_count(): the vertices are NodeIndex 0 .. node_count-1
    edges,            \* the edges by EdgeIndex (1 .. Len): <<tail, head>>
    minimum_length,   \* the minimum_length argument of rank()
    rank,             \* Vertex.rank of every vertex
    is_tree_edge,     \* Edge.is_tree_edge of every edge
    cut_value,        \* Edge.cut_value of every edge (None or an integer)
    low,              \* Vertex.low of every vertex
    lim,              \* Vertex.lim of every vertex
    dfs,              \* the TightTreeDFS object: vertices, edges, visited, count
    iterations,       \* the iterations of the loop of rank() run so far
    call,             \* the entry point of lib.rs the caller has called
    vertices,         \* its argument vertices: &[u32]
    input_edges,      \* its argument edges: &[(u32, u32)]
    id_map,           \* id_map of from_vertices_and_edges: vertex id -> NodeIndex
    layouts,          \* what build() has returned (None before it returns)
    layers,           \* MinimalCrossings.layers: the vertices of every rank, in order
    pos,              \* Vertex.pos of every vertex
    is_dummy,         \* Vertex.is_dummy of every vertex
    has_type_1_conflict,  \* Edge.has_type_1_conflict of every edge
    root,             \* Vertex.root of every vertex
    align,            \* Vertex.align of every vertex
    pass,             \* the alignment pass and its position: vdir, hdir, edge, layer, index, r
    root_vertices_on_top,  \* the configuration flag of that name
    layout_y,         \* the y coordinate the layout gives every vertex
    queue,            \* init_cutvalues of graphs/p1_layering: the queue of vertices
    pc                \* the position of the running function

\* The arguments and locals of the entry points of lib.rs.
build_vars == <<call, vertices, input_edges, id_map, layouts>>

\* The layout and the fields of the coordinate phase.
bk_vars == <<layers, pos, is_dummy, has_type_1_conflict, root, align, pass>>

\* The configuration and the output of the layout.
layout_vars == <<root_vertices_on_top, layout_y>>

vars == <<node_count, edges, minimum_length, rank, is_tree_edge, cut_value,
          low, lim, dfs, iterations, build_vars, bk_vars, layout_vars, queue, pc>>

(***************************************************************************)
(* The graph: petgraph's StableDiGraph accessors.                          *)
(***************************************************************************)
node_indices == 0 .. (node_count - 1)

edge_indices == 1 .. Len(edges)

source(e) == edges[e][1]

target(e) == edges[e][2]

\* Edge::default(): every edge the adapters build has weight 1.
weight(e) == 1

\* f applied to the value of x: the argument is evaluated once, before the use.
With(x, f(_)) == CHOOSE r \in {f(v) : v \in {x}} : TRUE

RECURSIVE DescendingSeq(_)
DescendingSeq(S) ==
    IF S = {} THEN <<>>
    ELSE With(CHOOSE x \in S : \A y \in S : y <= x, LAMBDA m :
             With(S \ {m}, LAMBDA rest : <<m>> \o DescendingSeq(rest)))

\* edges_directed(v, Incoming).chain(edges_directed(v, Outgoing)): petgraph walks
\* each adjacency list from the most recently added edge backwards.
incident_edges(v) ==
    DescendingSeq({e \in edge_indices : target(e) = v})
        \o DescendingSeq({e \in edge_indices : source(e) = v})

other_end(e, v) == IF source(e) = v THEN target(e) ELSE source(e)

\* slack(e) = rank(head) - rank(tail) - minimum_length
slack(rk, e) == rk[target(e)] - rk[source(e)] - minimum_length

Max(S) == CHOOSE x \in S : \A y \in S : y <= x

Min(S) == CHOOSE x \in S : \A y \in S : x <= y

RECURSIVE SumOver(_, _, _)
SumOver(f(_), S, acc) ==
    IF S = {} THEN acc
    ELSE With(CHOOSE y \in S : TRUE, LAMBDA x :
             With(<<S \ {x}, acc + f(x)>>, LAMBDA next : SumOver(f, next[1], next[2])))

(***************************************************************************)
(* feasible_tree: initial ranking, tight tree, cut values, low/lim.        *)
(***************************************************************************)
\* init_rank: rank(v) = max(0, max over u->v of rank(u) + minimum_length).
RECURSIVE longest_path(_)
longest_path(v) ==
    LET preds == {e \in edge_indices : target(e) = v}
    IN IF preds = {} THEN 0
       ELSE Max({longest_path(source(e)) + minimum_length : e \in preds})

init_rank == [v \in node_indices |-> longest_path(v)]

EmptyDFS == [vertices |-> {}, edges |-> {}, visited |-> {}, count |-> 0]

\* The tight-tree search of feasible_tree: a depth-first search over edges of
\* slack 0 that takes an edge only when its far end is not in the tree yet.
RECURSIVE grow_tight_tree(_, _, _), grow_tight_tree_edges(_, _, _, _)
grow_tight_tree(st, rk, vertex) ==
    grow_tight_tree_edges(
        [st EXCEPT !.vertices = @ \cup {vertex}, !.count = @ + 1],
        rk, vertex, incident_edges(vertex))

grow_tight_tree_edges(st, rk, vertex, es) ==
    IF es = <<>> THEN st
    ELSE LET edge == Head(es)
             other == other_end(edge, vertex)
             seen == [st EXCEPT !.visited = @ \cup {edge}]
         IN IF edge \in st.visited
            THEN grow_tight_tree_edges(st, rk, vertex, Tail(es))
            ELSE IF edge \in st.edges
            THEN grow_tight_tree_edges(grow_tight_tree(seen, rk, other),
                                       rk, vertex, Tail(es))
            ELSE IF other \notin st.vertices /\ slack(rk, edge) = 0
            THEN grow_tight_tree_edges(
                     grow_tight_tree([seen EXCEPT !.edges = @ \cup {edge}], rk, other),
                     rk, vertex, Tail(es))
            ELSE grow_tight_tree_edges(seen, rk, vertex, Tail(es))

\* Exactly one endpoint of the edge is a tree vertex.
is_incident_edge(st, e) == (source(e) \in st.vertices) # (target(e) \in st.vertices)

\* The first edge of minimal slack among the non-tree edges incident to the tree
\* (Iterator::min_by keeps the first of several minima).
find_non_tight_edge(st, rk) ==
    LET cands == {e \in edge_indices : e \notin st.edges /\ is_incident_edge(st, e)}
        best == Min({slack(rk, e) : e \in cands})
    IN Min({e \in cands : slack(rk, e) = best})

\* Shift every tree vertex by delta.
tighten_edge(st, rk, delta) ==
    [v \in node_indices |-> IF v \in st.vertices THEN rk[v] + delta ELSE rk[v]]

\* The loop of feasible_tree: grow the tree from the first node; while it does not
\* span the graph, make the closest incident edge tight and grow again.
RECURSIVE tight_tree_loop(_, _)
tight_tree_loop(st, rk) ==
    LET grown == grow_tight_tree([st EXCEPT !.visited = {}, !.count = 0], rk, 0)
    IN IF grown.count >= node_count
       THEN [rank |-> rk, tree |-> grown.edges]
       ELSE LET e == find_non_tight_edge(grown, rk)
                delta == IF target(e) \in grown.vertices
                         THEN 0 - slack(rk, e) ELSE slack(rk, e)
            IN tight_tree_loop(grown, tighten_edge(grown, rk, delta))

\* The vertices joined to `from` by the edges of `tree`.
RECURSIVE tree_component(_, _)
tree_component(tree, reached) ==
    With({v \in node_indices \ reached :
             \E e \in tree : \/ source(e) \in reached /\ target(e) = v
                             \/ target(e) \in reached /\ source(e) = v},
         LAMBDA more :
             IF more = {} THEN reached
             ELSE With(reached \cup more, LAMBDA grown : tree_component(tree, grown)))

\* The tail component of tree edge e: the side of its tail once e is removed.
tail_component(tree, e) == tree_component(tree \ {e}, {source(e)})

\* Cut value of tree edge e: the weight of all edges from the tail component to
\* the head component (e among them) minus the weight of the edges back.
cut_value_of(tree, e) ==
    With(tail_component(tree, e), LAMBDA tc :
        SumOver(LAMBDA f : IF source(f) \in tc /\ target(f) \notin tc THEN weight(f)
                           ELSE IF source(f) \notin tc /\ target(f) \in tc
                           THEN 0 - weight(f) ELSE 0,
                edge_indices, 0))

init_cutvalues(tree) ==
    [e \in edge_indices |-> IF e \in tree THEN Some(cut_value_of(tree, e)) ELSE None]

\* Post-order labelling of the tree from the first node: lim is the post-order
\* number, low the smallest lim of the subtree.
RECURSIVE dfs_low_lim(_, _, _, _), dfs_low_lim_edges(_, _, _, _, _)
dfs_low_lim(st, tree, vertex, parent) ==
    With(st, LAMBDA at :
        With(With(incident_edges(vertex), LAMBDA es :
                      dfs_low_lim_edges(at, tree, vertex, parent, es)),
             LAMBDA below :
                 [low |-> [below.low EXCEPT ![vertex] = at.next],
                  lim |-> [below.lim EXCEPT ![vertex] = below.next],
                  next |-> below.next + 1]))

dfs_low_lim_edges(st, tree, vertex, parent, es) ==
    IF es = <<>> THEN st
    ELSE LET edge == Head(es)
             other == other_end(edge, vertex)
         IN IF edge \in tree /\ other # parent
            THEN With(dfs_low_lim(st, tree, other, vertex), LAMBDA below :
                     dfs_low_lim_edges(below, tree, vertex, parent, Tail(es)))
            ELSE dfs_low_lim_edges(st, tree, vertex, parent, Tail(es))

init_low_lim(tree) ==
    dfs_low_lim([low |-> [v \in node_indices |-> 0],
                 lim |-> [v \in node_indices |-> 0],
                 next |-> 1], tree, 0, -1)

feasible_tree ==
    IF node_count = 0
    THEN [rank |-> rank, is_tree_edge |-> is_tree_edge, cut_value |-> cut_value,
          low |-> low, lim |-> lim]
    ELSE LET tt == tight_tree_loop(EmptyDFS, init_rank)
             ll == init_low_lim(tt.tree)
         IN [rank |-> tt.rank,
             is_tree_edge |-> [e \in edge_indices |-> e \in tt.tree],
             cut_value |-> init_cutvalues(tt.tree),
             low |-> ll.low,
             lim |-> ll.lim]

(***************************************************************************)
(* The loop of rank(): leave_edge, enter_edge, exchange, normalize.        *)
(***************************************************************************)
\* Variants of leave_edge: one that looks at the first tree edge only, one with a
\* slip in the comparison of the cut value.
leave_edge_first_only(cv) ==
    LET some == {e \in edge_indices : cv[e] # None}
        first == CHOOSE e \in some : \A f \in some : e <= f
    IN IF some = {} THEN 0 ELSE IF cv[first][1] < 0 THEN first ELSE 0

leave_edge_non_positive(cv) ==
    LET neg == {e \in edge_indices : cv[e] # None /\ cv[e][1] <= 0}
    IN IF neg = {} THEN 0 ELSE CHOOSE e \in neg : \A f \in neg : e <= f

\* leave_edge: the first edge, by index, whose cut value is negative; None (0)
\* when there is none.
leave_edge(cv) ==
    LET neg == {e \in edge_indices : cv[e] # None /\ cv[e][1] < 0}
    IN IF neg = {} THEN 0 ELSE Min(neg)

\* u.low <= x.lim <= u.lim: x lies in the subtree of u.
in_subtree(lo, li, u, x) == lo[u] <= li[x] /\ li[x] <= li[u]

\* A variant of is_head_to_tail that takes the edges from the tail component to
\* the head component.
is_tail_to_head(lo, li, edge, u, is_root_in_head) ==
    /\ is_root_in_head # in_subtree(lo, li, u, target(edge))
    /\ is_root_in_head = in_subtree(lo, li, u, source(edge))

\* is_head_to_tail: the edge's head is in the tail component and its tail in the
\* head component of the tree without the leaving edge.
is_head_to_tail(lo, li, edge, u, is_root_in_head) ==
    /\ is_root_in_head = in_subtree(lo, li, u, target(edge))
    /\ is_root_in_head # in_subtree(lo, li, u, source(edge))

\* A variant of first_min_slack that keeps the last of several minima.
last_min_slack(rk, cands) ==
    LET best == Min({slack(rk, e) : e \in cands})
    IN Max({e \in cands : slack(rk, e) = best})

\* min_by over the slacks: the first edge of the least slack.
first_min_slack(rk, cands) ==
    LET best == Min({slack(rk, e) : e \in cands})
    IN Min({e \in cands : slack(rk, e) = best})

\* A variant of enter_edge that takes the candidate of the greatest slack.
enter_edge_max_by(rk, tree, lo, li, edge) ==
    LET is_root_in_head == li[source(edge)] < li[target(edge)]
        u == IF is_root_in_head THEN source(edge) ELSE target(edge)
        cands == {e \in edge_indices :
                     ~tree[e] /\ is_head_to_tail(lo, li, e, u, is_root_in_head)}
        worst == Max({slack(rk, e) : e \in cands})
    IN IF cands = {} THEN 0 ELSE Min({e \in cands : slack(rk, e) = worst})

\* enter_edge: among the non-tree edges from the head to the tail component, the
\* first one of minimal slack; 0 stands for the None that unwrap() panics on.
enter_edge(rk, tree, lo, li, edge) ==
    LET is_root_in_head == li[source(edge)] < li[target(edge)]
        u == IF is_root_in_head THEN source(edge) ELSE target(edge)
        cands == {e \in edge_indices :
                     ~tree[e] /\ is_head_to_tail(lo, li, e, u, is_root_in_head)}
    IN IF cands = {} THEN 0 ELSE first_min_slack(rk, cands)

TreeEdges(tree) == {e \in edge_indices : tree[e]}

\* The tree edges on the path between the two endpoints of edge f in `tree`: the
\* edges whose removal separates the endpoints.
tree_path(tree, f) ==
    {e \in tree : (source(f) \in tail_component(tree, e))
                      # (target(f) \in tail_component(tree, e))}

\* update_cutvalues: the leaving edge loses its cut value; the cut values on the
\* cycle closed by the entering edge are recomputed, the others are kept.
update_cutvalues(cv, tree, removed_edge, swap_edge) ==
    LET new_tree == TreeEdges(tree)
        old_tree == (new_tree \ {swap_edge}) \cup {removed_edge}
        cycle == tree_path(old_tree, swap_edge) \cup {swap_edge}
    IN [e \in edge_indices |->
           IF e \notin new_tree THEN None
           ELSE IF e \in cycle THEN Some(cut_value_of(new_tree, e))
           ELSE cv[e]]

update_low_lim(tree) == init_low_lim(TreeEdges(tree))

\* update_ranks: the ranks follow from the tree: the first node gets rank 0, a
\* tree edge is tight, so its head lies minimum_length below its tail.
RECURSIVE ranks_from_tree(_, _, _)
ranks_from_tree(tree, rk, done) ==
    With({e \in tree : (source(e) \in done) # (target(e) \in done)}, LAMBDA nxt :
        IF nxt = {} THEN rk
        ELSE With(Min(nxt), LAMBDA e :
            IF source(e) \in done
            THEN With([rk EXCEPT ![target(e)] = rk[source(e)] + minimum_length],
                      LAMBDA placed : ranks_from_tree(tree, placed, done \cup {target(e)}))
            ELSE With([rk EXCEPT ![source(e)] = rk[target(e)] - minimum_length],
                      LAMBDA placed : ranks_from_tree(tree, placed, done \cup {source(e)}))))

update_ranks(tree) ==
    ranks_from_tree(TreeEdges(tree), [v \in node_indices |-> 0], {0})

\* A variant of exchange that leaves the tree flag of the removed edge set.
exchange_keeps_removed_edge(cv, tree, removed_edge, swap_edge) ==
    LET swapped == [tree EXCEPT ![swap_edge] = TRUE]
        ll == update_low_lim([tree EXCEPT ![removed_edge] = FALSE, ![swap_edge] = TRUE])
    IN [is_tree_edge |-> swapped,
        cut_value |-> update_cutvalues(cv, swapped, removed_edge, swap_edge),
        low |-> ll.low,
        lim |-> ll.lim,
        rank |-> update_ranks([tree EXCEPT ![removed_edge] = FALSE, ![swap_edge] = TRUE])]

\* A variant of exchange that leaves the ranks as they are.
exchange_without_update_ranks(cv, tree, removed_edge, swap_edge) ==
    LET swapped == [tree EXCEPT ![removed_edge] = FALSE, ![swap_edge] = TRUE]
        ll == update_low_lim(swapped)
    IN [is_tree_edge |-> swapped,
        cut_value |-> update_cutvalues(cv, swapped, removed_edge, swap_edge),
        low |-> ll.low,
        lim |-> ll.lim,
        rank |-> rank]

\* exchange: swap the two tree flags, then update cut values, low/lim and ranks.
exchange(cv, tree, removed_edge, swap_edge) ==
    LET swapped == [tree EXCEPT ![removed_edge] = FALSE, ![swap_edge] = TRUE]
        ll == update_low_lim(swapped)
    IN [is_tree_edge |-> swapped,
        cut_value |-> update_cutvalues(cv, swapped, removed_edge, swap_edge),
        low |-> ll.low,
        lim |-> ll.lim,
        rank |-> update_ranks(swapped)]

\* A variant of normalize that leaves the ranks as they are.
\* graph.node_identifiers().map(|v| graph[v].rank).min(): None where the graph has
\* no vertex.
min_rank(rk) ==
    IF node_indices = {} THEN None ELSE Some(Min({rk[v] : v \in node_indices}))

normalize_skipped(rk) == rk

\* normalize: subtract the least rank from every rank (min_rank unwrapped).
normalize(rk) == [v \in node_indices |-> rk[v] - min_rank(rk)[1]]

(***************************************************************************)
(* TightTreeDFS::tight_tree of phases/p1_layering.                         *)
(***************************************************************************)
RECURSIVE tight_tree(_, _, _), tight_tree_edges(_, _, _, _)
tight_tree(st, rk, vertex) ==
    tight_tree_edges(
        [st EXCEPT !.vertices = @ \cup {vertex}, !.count = @ + 1],
        rk, vertex, incident_edges(vertex))

tight_tree_edges(st, rk, vertex, es) ==
    IF es = <<>> THEN st
    ELSE LET edge == Head(es)
             other == other_end(edge, vertex)
             seen == [st EXCEPT !.visited = @ \cup {edge}]
         IN IF edge \in st.visited
            THEN tight_tree_edges(st, rk, vertex, Tail(es))
            ELSE IF edge \in st.edges
            THEN tight_tree_edges(tight_tree(seen, rk, other), rk, vertex, Tail(es))
            ELSE IF slack(rk, edge) = 0
            THEN tight_tree_edges(
                     tight_tree([seen EXCEPT !.edges = @ \cup {edge}], rk, other),
                     rk, vertex, Tail(es))
            ELSE tight_tree_edges(seen, rk, vertex, Tail(es))

(***************************************************************************)
(* The input graph. The adapters (from_edges, lib.rs:21-25) hand rank() a   *)
(* weakly connected DAG, parallel edges included; the vertices are numbered *)
(* along or against a topological order and the edges come in index order.  *)
(***************************************************************************)
EdgeCode(t, h) == t * MaxV + h

\* The edges that may follow the edges added so far.
NextEdges ==
    {p \in (0 .. (MaxV - 1)) \X (0 .. (MaxV - 1)) :
        /\ p[1] # p[2]
        /\ edges # <<>> =>
              /\ (p[1] < p[2]) = (edges[1][1] < edges[1][2])
              /\ EdgeCode(p[1], p[2]) >=
                     EdgeCode(edges[Len(edges)][1], edges[Len(edges)][2])}

IsWeaklyConnected == tree_component(edge_indices, {0}) = node_indices

\* No layered graph has been handed to the coordinate phase.
NoPass == [vdir |-> "Down", hdir |-> "Right", edge |-> 0, layer |-> 0, index |-> 0, r |-> -1]

NoLayout ==
    /\ layers = <<>>
    /\ pos = <<>>
    /\ is_dummy = <<>>
    /\ has_type_1_conflict = <<>>
    /\ root = <<>>
    /\ align = <<>>
    /\ pass = NoPass

InitGraph ==
    /\ node_count \in {0, 1}
    /\ edges = <<>>
    /\ minimum_length \in 1 .. MaxMinLen
    /\ rank = [v \in node_indices |-> 0]
    /\ is_tree_edge = <<>>
    /\ cut_value = <<>>
    /\ low = [v \in node_indices |-> 0]
    /\ lim = [v \in node_indices |-> 0]
    /\ dfs = EmptyDFS
    /\ iterations = 0
    /\ call = "from_edges"
    /\ vertices = <<>>
    /\ input_edges = <<>>
    /\ id_map = <<>>
    /\ layouts = None
    /\ NoLayout
    /\ layout_y = <<>>
    /\ queue = <<>>
    /\ pc = "build"

\* The graph before any edge is added, under the configuration in which
\* root_vertices_on_top is disabled.
Init == InitGraph /\ root_vertices_on_top = FALSE

\* StableDiGraph::from_edges: add one edge, and the nodes up to its endpoints,
\* every weight being the default one.
AddEdge ==
    /\ pc = "build"
    /\ Len(edges) < MaxE
    /\ \E p \in NextEdges :
          /\ edges' = Append(edges, p)
          /\ node_count' = Max({node_count, p[1] + 1, p[2] + 1})
    /\ rank' = [v \in 0 .. (node_count' - 1) |-> 0]
    /\ low' = [v \in 0 .. (node_count' - 1) |-> 0]
    /\ lim' = [v \in 0 .. (node_count' - 1) |-> 0]
    /\ is_tree_edge' = Append(is_tree_edge, FALSE)
    /\ cut_value' = Append(cut_value, None)
    /\ UNCHANGED <<minimum_length, dfs, iterations, build_vars, bk_vars, layout_vars, queue, pc>>

\* rank(), line 19: feasible_tree(graph, minimum_length).
FeasibleTree ==
    /\ pc = "build"
    /\ node_count = 0 \/ IsWeaklyConnected
    /\ \E ft \in {feasible_tree} :
          /\ rank' = ft.rank
          /\ is_tree_edge' = ft.is_tree_edge
          /\ cut_value' = ft.cut_value
          /\ low' = ft.low
          /\ lim' = ft.lim
    /\ pc' = "loop"
    /\ UNCHANGED <<node_count, edges, minimum_length, dfs, iterations, build_vars, bk_vars, layout_vars, queue>>

\* rank(), lines 20-24: one iteration of the while loop.
Exchange ==
    /\ pc = "loop"
    /\ leave_edge(cut_value) # 0
    /\ \E removed_edge \in {leave_edge(cut_value)} :
       \E swap_edge \in {enter_edge(rank, is_tree_edge, low, lim, removed_edge)} :
          IF swap_edge = 0
          THEN /\ pc' = "panic"
               /\ UNCHANGED <<rank, is_tree_edge, cut_value, low, lim>>
          ELSE \E x \in {exchange(cut_value, is_tree_edge, removed_edge, swap_edge)} :
                  /\ rank' = x.rank
                  /\ is_tree_edge' = x.is_tree_edge
                  /\ cut_value' = x.cut_value
                  /\ low' = x.low
                  /\ lim' = x.lim
                  /\ pc' = "loop"
    /\ iterations' = IF iterations < MaxIterations THEN iterations + 1 ELSE iterations
    /\ UNCHANGED <<node_count, edges, minimum_length, dfs, build_vars, bk_vars, layout_vars, queue>>

\* rank(), lines 20 and 28: leave_edge returns None, normalize runs, rank returns;
\* the unwrap() of normalize panics where min() has returned None.
Normalize ==
    /\ pc = "loop"
    /\ leave_edge(cut_value) = 0
    /\ IF min_rank(rank) = None
       THEN rank' = rank /\ pc' = "normalize_panic"
       ELSE rank' = normalize(rank) /\ pc' = "done"
    /\ UNCHANGED <<node_count, edges, minimum_length, is_tree_edge, cut_value,
                   low, lim, dfs, iterations, build_vars, bk_vars, layout_vars, queue>>

\* test_dfs_start_from_root / test_dfs_start_not_from_root: the search is run on
\* the initially ranked graph from a start vertex.
TightTreeFrom ==
    /\ pc = "build"
    /\ node_count > 0
    /\ IsWeaklyConnected
    /\ \E vertex \in node_indices :
          dfs' = tight_tree(EmptyDFS, init_rank, vertex)
    /\ rank' = init_rank
    /\ pc' = "dfs_done"
    /\ UNCHANGED <<node_count, edges, minimum_length, is_tree_edge, cut_value,
                   low, lim, iterations, build_vars, bk_vars, layout_vars, queue>>

Next == AddEdge \/ FeasibleTree \/ Exchange \/ Normalize

Spec == Init /\ [][Next]_vars

NextDFS == AddEdge \/ TightTreeFrom

SpecDFS == Init /\ [][NextDFS]_vars

(***************************************************************************)
(* The entry points of lib.rs: from_edges, from_vertices_and_edges, build.  *)
(***************************************************************************)
Ids == 0 .. (NumIds - 1)

SeqsUpTo(S, n) == UNION {[1 .. k -> S] : k \in 0 .. n}

Range(seq) == {seq[k] : k \in 1 .. Len(seq)}

\* The variables of rank() and of the tight-tree search.
rank_vars == <<minimum_length, rank, is_tree_edge, cut_value, low, lim, dfs, iterations>>

\* The caller has chosen an entry point and its arguments; the graph is empty.
InitBuild ==
    /\ call \in {"from_edges", "from_vertices_and_edges"}
    /\ vertices \in SeqsUpTo(Ids, MaxVertices)
    /\ call = "from_edges" => vertices = <<>>
    /\ input_edges \in SeqsUpTo(Ids \X Ids, MaxInputEdges)
    /\ id_map = <<>>
    /\ layouts = None
    /\ NoLayout
    /\ root_vertices_on_top = FALSE
    /\ layout_y = <<>>
    /\ queue = <<>>
    /\ node_count = 0
    /\ edges = <<>>
    /\ minimum_length = 1
    /\ rank = <<>>
    /\ is_tree_edge = <<>>
    /\ cut_value = <<>>
    /\ low = <<>>
    /\ lim = <<>>
    /\ dfs = EmptyDFS
    /\ iterations = 0
    /\ pc = "called"

\* A variant of from_edges whose graph always holds a first node.
from_edges_with_first_node(es) ==
    [node_count |-> Max({1} \cup {e[1] + 1 : e \in Range(es)}
                            \cup {e[2] + 1 : e \in Range(es)}),
     edges |-> es]

\* StableDiGraph::from_edges: the nodes are 0 .. the greatest index named by an
\* edge; no edge, no node.
from_edges(es) ==
    [node_count |-> Max({0} \cup {e[1] + 1 : e \in Range(es)}
                            \cup {e[2] + 1 : e \in Range(es)}),
     edges |-> es]

\* A variant of endpoint_ids in which only the lookup of the tail is unwrapped,
\* the head falling back to the first node.
endpoint_ids_unwrap_or_default(map, e) ==
    IF e[1] \in DOMAIN map
    THEN Some(<<map[e[1]], IF e[2] \in DOMAIN map THEN map[e[2]] ELSE 0>>)
    ELSE None

\* *id_map.get(tail).unwrap(), *id_map.get(head).unwrap(): None stands for the
\* panic of unwrap() on a missing key.
endpoint_ids(map, e) ==
    IF e[1] \in DOMAIN map /\ e[2] \in DOMAIN map
    THEN Some(<<map[e[1]], map[e[2]]>>)
    ELSE None

\* build(): one layout for every weakly connected component of the graph (a
\* layout is told by the vertices it places).
build == {tree_component(edge_indices, {v}) : v \in node_indices}

\* from_edges, lib.rs:21-25.
FromEdges ==
    /\ pc = "called"
    /\ call = "from_edges"
    /\ \E g \in {from_edges(input_edges)} :
          /\ node_count' = g.node_count
          /\ edges' = g.edges
          /\ rank' = [v \in 0 .. (g.node_count - 1) |-> 0]
          /\ low' = [v \in 0 .. (g.node_count - 1) |-> 0]
          /\ lim' = [v \in 0 .. (g.node_count - 1) |-> 0]
          /\ is_tree_edge' = [e \in 1 .. Len(g.edges) |-> FALSE]
          /\ cut_value' = [e \in 1 .. Len(g.edges) |-> None]
    /\ pc' = "builder"
    /\ UNCHANGED <<minimum_length, dfs, iterations, build_vars, bk_vars, layout_vars, queue>>

\* from_vertices_and_edges, lib.rs:64-67: one iteration of the loop over vertices.
AddNode ==
    /\ pc = "called"
    /\ call = "from_vertices_and_edges"
    /\ node_count < Len(vertices)
    /\ node_count' = node_count + 1
    /\ id_map' = (vertices[node_count + 1] :> node_count) @@ id_map
    /\ rank' = [v \in 0 .. node_count |-> 0]
    /\ low' = [v \in 0 .. node_count |-> 0]
    /\ lim' = [v \in 0 .. node_count |-> 0]
    /\ UNCHANGED <<edges, minimum_length, is_tree_edge, cut_value, dfs, iterations,
                   call, vertices, input_edges, layouts, bk_vars, layout_vars, queue, pc>>

\* from_vertices_and_edges, lib.rs:69-75: one iteration of the loop over edges.
AddInputEdge ==
    /\ pc = "called"
    /\ call = "from_vertices_and_edges"
    /\ node_count = Len(vertices)
    /\ Len(edges) < Len(input_edges)
    /\ \E ids \in {endpoint_ids(id_map, input_edges[Len(edges) + 1])} :
          IF ids = None
          THEN /\ pc' = "panic"
               /\ UNCHANGED <<edges, is_tree_edge, cut_value>>
          ELSE /\ edges' = Append(edges, ids[1])
               /\ is_tree_edge' = Append(is_tree_edge, FALSE)
               /\ cut_value' = Append(cut_value, None)
               /\ pc' = "called"
    /\ UNCHANGED <<node_count, minimum_length, rank, low, lim, dfs, iterations,
                   build_vars, bk_vars, layout_vars, queue>>

\* from_vertices_and_edges, lib.rs:77: CoordinatesBuilder::new(graph) is returned.
NewBuilder ==
    /\ pc = "called"
    /\ call = "from_vertices_and_edges"
    /\ node_count = Len(vertices)
    /\ Len(edges) = Len(input_edges)
    /\ pc' = "builder"
    /\ UNCHANGED <<node_count, edges, rank_vars, build_vars, bk_vars, layout_vars, queue>>

\* CoordinatesBuilder::build() on the builder the entry point returned.
Build ==
    /\ pc = "builder"
    /\ layouts' = Some(build)
    /\ pc' = "built"
    /\ UNCHANGED <<node_count, edges, rank_vars, call, vertices, input_edges, id_map,
                   bk_vars, layout_vars, queue>>

NextBuild == FromEdges \/ AddNode \/ AddInputEdge \/ NewBuilder \/ Build

SpecBuild == InitBuild /\ [][NextBuild]_vars

(***************************************************************************)
(* The coordinate phase (phases/p3_calculate_coordinates): the layout of   *)
(* create_test_layout, mark_type_1_conflicts and create_vertical_alignments.*)
(***************************************************************************)
\* create_test_layout: the thirty edges handed to from_edges.
test_edges ==
    << <<0, 2>>, <<0, 6>>, <<0, 18>>, <<1, 16>>, <<1, 17>>,
       <<3, 8>>, <<16, 8>>, <<4, 8>>, <<17, 19>>, <<18, 20>>, <<5, 8>>, <<5, 9>>,
       <<6, 8>>, <<6, 21>>,
       <<7, 10>>, <<7, 11>>, <<7, 12>>, <<19, 23>>, <<20, 24>>, <<21, 12>>,
       <<9, 22>>, <<9, 25>>,
       <<10, 13>>, <<10, 14>>, <<11, 14>>, <<22, 13>>, <<23, 15>>, <<24, 15>>,
       <<12, 15>>, <<25, 15>> >>

\* create_test_layout: the rows of the layout, rank by rank.
test_layers ==
    << <<0, 1>>,
       <<2, 3, 16, 4, 17, 18, 5, 6>>,
       <<7, 8, 19, 20, 21, 9>>,
       <<10, 11, 22, 23, 24, 12, 25>>,
       <<13, 14, 15>> >>

\* A variant of the layout with the two branches swapped: the vertices below 16
\* are the dummies.
test_is_dummy_swapped(v) == v < 16

\* create_test_layout: the vertices of index 16 and above are dummies.
test_is_dummy(v) == v >= 16

\* for (rank, row) in layers.iter().enumerate()
rank_in(ls, v) == (CHOOSE k \in 1 .. Len(ls) : v \in Range(ls[k])) - 1

\* for (pos, v) in row.iter().enumerate()
pos_in(ls, v) ==
    (CHOOSE p \in 1 .. Len(ls[rank_in(ls, v) + 1]) : ls[rank_in(ls, v) + 1][p] = v) - 1

VDirs == {"Down", "Up"}

HDirs == {"Right", "Left"}

\* Two edges between the same two ranks cross when their upper ends and their
\* lower ends stand in opposite orders.
crosses(e, f) ==
    /\ rank[source(e)] = rank[source(f)]
    /\ rank[target(e)] = rank[target(f)]
    /\ (pos[source(e)] - pos[source(f)]) * (pos[target(e)] - pos[target(f)]) < 0

\* An inner segment: an edge both of whose endpoints are dummies.
is_inner_segment(f) == is_dummy[source(f)] /\ is_dummy[target(f)]

crosses_inner_segment(e) ==
    \E f \in edge_indices : is_inner_segment(f) /\ crosses(e, f)

\* The position of v in its row, counted in the horizontal preference order.
preference_pos(hdir, v) ==
    IF hdir = "Right" THEN pos[v] ELSE Len(layers[rank[v] + 1]) - 1 - pos[v]

\* The neighbours of v on the previous rank of the pass.
previous_rank_neighbours(vdir, v) ==
    IF vdir = "Down"
    THEN {source(e) : e \in {e \in edge_indices : target(e) = v}}
    ELSE {target(e) : e \in {e \in edge_indices : source(e) = v}}

RECURSIVE in_preference_order(_, _)
in_preference_order(hdir, S) ==
    IF S = {} THEN <<>>
    ELSE LET u == CHOOSE u \in S :
                     \A w \in S : preference_pos(hdir, u) <= preference_pos(hdir, w)
         IN <<u>> \o in_preference_order(hdir, S \ {u})

\* The edge that joins v to its neighbour u on the previous rank.
edge_between(vdir, u, v) ==
    CHOOSE e \in edge_indices :
        IF vdir = "Down" THEN source(e) = u /\ target(e) = v
                         ELSE source(e) = v /\ target(e) = u

\* A variant of median_candidates that keeps the first median only.
median_candidates_first_only(ns) ==
    IF Len(ns) = 0 THEN <<>> ELSE <<ns[(Len(ns) + 1) \div 2]>>

\* The medians of the neighbours: the middle one of an odd number, the two middle
\* ones of an even number, the one nearer the start of the preference order first.
median_candidates(ns) ==
    IF Len(ns) = 0 THEN <<>>
    ELSE IF Len(ns) % 2 = 1 THEN <<ns[(Len(ns) + 1) \div 2]>>
    ELSE <<ns[Len(ns) \div 2], ns[Len(ns) \div 2 + 1]>>

\* align(prev) = v, root(v) = root(prev), align(v) = root(v)
aligned_with(st, r, v, u) ==
    [root |-> [st.root EXCEPT ![v] = st.root[u]],
     align |-> [st.align EXCEPT ![u] = v, ![v] = st.root[u]],
     r |-> r]

\* v, not aligned yet, is aligned with the candidate u when their edge has no type-1
\* conflict and u stands beyond r, the position of the last vertex of the previous
\* rank that a vertex of this rank was aligned with.
try_align(st, vdir, hdir, v, u) ==
    IF /\ st.align[v] = v
       /\ ~has_type_1_conflict[edge_between(vdir, u, v)]
       /\ st.r < preference_pos(hdir, u)
    THEN aligned_with(st, preference_pos(hdir, u), v, u)
    ELSE st

RECURSIVE try_align_all(_, _, _, _, _)
try_align_all(st, vdir, hdir, v, ms) ==
    IF ms = <<>> THEN st
    ELSE try_align_all(try_align(st, vdir, hdir, v, Head(ms)), vdir, hdir, v, Tail(ms))

align_vertex(st, vdir, hdir, v) ==
    try_align_all(st, vdir, hdir, v,
        median_candidates(in_preference_order(hdir, previous_rank_neighbours(vdir, v))))

\* The rows in the order of the vertical direction, and the vertices of a row in the
\* order of the horizontal preference.
row_of_pass(vdir, k) ==
    IF vdir = "Down" THEN layers[k] ELSE layers[Len(layers) + 1 - k]

vertex_of_pass(vdir, hdir, k, i) ==
    IF hdir = "Right" THEN row_of_pass(vdir, k)[i]
    ELSE row_of_pass(vdir, k)[Len(row_of_pass(vdir, k)) + 1 - i]

\* create_test_layout(): the graph of the thirty edges, every vertex with its rank,
\* its pos and its dummy flag, no edge marked and every vertex a block of its own.
InitBK ==
    /\ \E g \in {from_edges(test_edges)} :
          /\ node_count = g.node_count
          /\ edges = g.edges
    /\ layers = test_layers
    /\ rank = [v \in node_indices |-> rank_in(layers, v)]
    /\ pos = [v \in node_indices |-> pos_in(layers, v)]
    /\ is_dummy = [v \in node_indices |-> test_is_dummy(v)]
    /\ has_type_1_conflict = [e \in edge_indices |-> FALSE]
    /\ root = [v \in node_indices |-> v]
    /\ align = [v \in node_indices |-> v]
    /\ pass = [NoPass EXCEPT !.edge = 1]
    /\ minimum_length = 1
    /\ is_tree_edge = <<>>
    /\ cut_value = <<>>
    /\ low = <<>>
    /\ lim = <<>>
    /\ dfs = EmptyDFS
    /\ iterations = 0
    /\ call = "from_edges"
    /\ vertices = <<>>
    /\ input_edges = <<>>
    /\ id_map = <<>>
    /\ layouts = None
    /\ root_vertices_on_top = FALSE
    /\ layout_y = <<>>
    /\ queue = <<>>
    /\ pc = "mark"

\* mark_type_1_conflicts, one edge at a time.
MarkEdge ==
    /\ pc = "mark"
    /\ has_type_1_conflict' =
          [has_type_1_conflict EXCEPT ![pass.edge] = crosses_inner_segment(pass.edge)]
    /\ pass' = [pass EXCEPT !.edge = pass.edge + 1]
    /\ pc' = IF pass.edge = Len(edges) THEN "marked" ELSE "mark"
    /\ UNCHANGED <<node_count, edges, rank_vars, build_vars, layout_vars, queue,
                   layers, pos, is_dummy, root, align>>

\* create_vertical_alignments(vdir, hdir) is called.
CreateVerticalAlignments ==
    /\ pc = "marked"
    /\ \E vdir \in VDirs, hdir \in HDirs :
          pass' = [pass EXCEPT !.vdir = vdir, !.hdir = hdir,
                               !.layer = 1, !.index = 1, !.r = -1]
    /\ pc' = "align"
    /\ UNCHANGED <<node_count, edges, rank_vars, build_vars, layout_vars, queue,
                   layers, pos, is_dummy, has_type_1_conflict, root, align>>

\* create_vertical_alignments: the next vertex of the row, or the first of the next
\* row, where r starts again.
AlignVertex ==
    /\ pc = "align"
    /\ \E st \in {align_vertex([root |-> root, align |-> align, r |-> pass.r],
                               pass.vdir, pass.hdir,
                               vertex_of_pass(pass.vdir, pass.hdir, pass.layer, pass.index))} :
          /\ root' = st.root
          /\ align' = st.align
          /\ pass' = IF pass.index < Len(row_of_pass(pass.vdir, pass.layer))
                     THEN [pass EXCEPT !.index = pass.index + 1, !.r = st.r]
                     ELSE [pass EXCEPT !.layer = pass.layer + 1, !.index = 1, !.r = -1]
    /\ pc' = IF /\ pass.index = Len(row_of_pass(pass.vdir, pass.layer))
                /\ pass.layer = Len(layers)
             THEN "aligned" ELSE "align"
    /\ UNCHANGED <<node_count, edges, rank_vars, build_vars, layout_vars, queue,
                   layers, pos, is_dummy, has_type_1_conflict>>

NextBK == MarkEdge \/ CreateVerticalAlignments \/ AlignVertex

SpecBK == InitBK /\ [][NextBK]_vars

(***************************************************************************)
(* After rank(): move_roots_to_top and the y coordinates of the layout.    *)
(***************************************************************************)
\* The default vertex_spacing, the one of root_vertices_on_top_disabled.
vertex_spacing == 10

\* graph.neighbors_directed(v, dir)
neighbors_directed(v, dir) ==
    IF dir = "Incoming"
    THEN {source(e) : e \in {e \in edge_indices : target(e) = v}}
    ELSE {target(e) : e \in {e \in edge_indices : source(e) = v}}

\* for v in graph.node_indices(): the vertices from v on, in index order; a vertex
\* without a neighbour in direction dir gets rank 0.
RECURSIVE move_to_top(_, _, _)
move_to_top(rk, v, dir) ==
    IF v >= node_count THEN rk
    ELSE move_to_top(IF Cardinality(neighbors_directed(v, dir)) = 0
                     THEN [rk EXCEPT ![v] = 0] ELSE rk, v + 1, dir)

\* A variant of move_roots_to_top that looks at the outgoing neighbours.
move_roots_to_top_outgoing(rk) == move_to_top(rk, 0, "Outgoing")

\* move_roots_to_top
move_roots_to_top(rk) == move_to_top(rk, 0, "Incoming")

\* A variant of layout_rank that moves the roots whatever the flag says.
layout_rank_always_on_top(on_top, rk) == move_roots_to_top(rk)

\* The ranks the layout is drawn from: the ranks of rank(), the roots moved to the
\* top when root_vertices_on_top is set.
layout_rank(on_top, rk) == IF on_top THEN move_roots_to_top(rk) ELSE rk

\* y = -(vertex_spacing * rank)
y_of(rk) == [v \in node_indices |-> 0 - vertex_spacing * rk[v]]

\* The rest of build() once rank() has returned, as far as y goes.
Layout ==
    /\ pc = "done"
    /\ rank' = layout_rank(root_vertices_on_top, rank)
    /\ layout_y' = y_of(rank')
    /\ pc' = "laid_out"
    /\ UNCHANGED <<node_count, edges, minimum_length, is_tree_edge, cut_value, low, lim,
                   dfs, iterations, build_vars, bk_vars, root_vertices_on_top, queue>>

InitLayout == InitGraph /\ root_vertices_on_top \in BOOLEAN

NextLayout == AddEdge \/ FeasibleTree \/ Exchange \/ Normalize \/ Layout

SpecLayout == InitLayout /\ [][NextLayout]_vars

\* The edges of a graph of up to MaxRootsV vertices, in the order of their codes.
RootsEdges ==
    {es \in SeqsUpTo({p \in (0 .. (MaxRootsV - 1)) \X (0 .. (MaxRootsV - 1)) : p[1] # p[2]},
                     MaxRootsE) :
        \A k \in 1 .. (Len(es) - 1) :
            EdgeCode(es[k][1], es[k][2]) <= EdgeCode(es[k + 1][1], es[k + 1][2])}

\* move_roots_to_top is handed a graph whose ranks satisfy the minimum length on
\* every edge and have the minimum 0.
InitRoots ==
    /\ edges \in RootsEdges
    /\ node_count \in 1 .. MaxRootsV
    /\ \A k \in 1 .. Len(edges) : edges[k][1] < node_count /\ edges[k][2] < node_count
    /\ minimum_length \in 1 .. MaxMinLen
    /\ rank \in [0 .. (node_count - 1) -> 0 .. MaxRank]
    /\ \A e \in edge_indices : rank[target(e)] - rank[source(e)] >= minimum_length
    /\ \E v \in node_indices : rank[v] = 0
    /\ is_tree_edge = [e \in edge_indices |-> FALSE]
    /\ cut_value = [e \in edge_indices |-> None]
    /\ low = [v \in node_indices |-> 0]
    /\ lim = [v \in node_indices |-> 0]
    /\ dfs = EmptyDFS
    /\ iterations = 0
    /\ call = "from_edges"
    /\ vertices = <<>>
    /\ input_edges = <<>>
    /\ id_map = <<>>
    /\ layouts = None
    /\ NoLayout
    /\ root_vertices_on_top = TRUE
    /\ layout_y = <<>>
    /\ queue = <<>>
    /\ pc = "ranked"

\* move_roots_to_top(graph)
MoveRootsToTop ==
    /\ pc = "ranked"
    /\ rank' = move_roots_to_top(rank)
    /\ pc' = "roots_moved"
    /\ UNCHANGED <<node_count, edges, minimum_length, is_tree_edge, cut_value, low, lim,
                   dfs, iterations, build_vars, bk_vars, layout_vars, queue>>

NextRoots == MoveRootsToTop

SpecRoots == InitRoots /\ [][NextRoots]_vars

(***************************************************************************)
(* graphs/p1_layering: UnlayeredGraph::initial_ranking.                    *)
(***************************************************************************)
\* initial_ranking, lines 39-42: the greatest r + 1 over the ranks r of the incoming
\* neighbours, 0 where there is none; the vertices are taken in topological order,
\* so the rank of every incoming neighbour is known.
RECURSIVE initial_ranking(_)
initial_ranking(v) ==
    IF neighbors_directed(v, "Incoming") = {} THEN 0
    ELSE Max({initial_ranking(u) + 1 : u \in neighbors_directed(v, "Incoming")})

\* start_layering(graph).initial_ranking(minimum_length)
InitialRanking ==
    /\ pc = "build"
    /\ node_count > 0
    /\ rank' = [v \in node_indices |-> initial_ranking(v)]
    /\ pc' = "initial_ranking"
    /\ UNCHANGED <<node_count, edges, minimum_length, is_tree_edge, cut_value, low, lim,
                   dfs, iterations, build_vars, bk_vars, layout_vars, queue>>

NextInitialRanking == AddEdge \/ InitialRanking

SpecInitialRanking == Init /\ [][NextInitialRanking]_vars

(***************************************************************************)
(* graphs/p1_layering: FeasibleTreeBuilder::init_cutvalues and             *)
(* FeasibleTree::rank. self.tree holds the tree edges, self.graph the      *)
(* other edges (make_tight removes the tree edges from it, line 92).       *)
(***************************************************************************)
tree_edges == {e \in edge_indices : is_tree_edge[e]}

graph_edges == {e \in edge_indices : ~is_tree_edge[e]}

edges_directed(es, vertex, direction) ==
    {e \in es : IF direction = "Incoming" THEN target(e) = vertex ELSE source(e) = vertex}

\* leaves: the vertices with fewer than two neighbours in the tree, in index order.
leaves ==
    LET RECURSIVE from(_)
        from(v) == IF v >= node_count THEN <<>>
                   ELSE (IF Cardinality(edges_directed(tree_edges, v, "Incoming"))
                            + Cardinality(edges_directed(tree_edges, v, "Outgoing")) < 2
                         THEN <<v>> ELSE <<>>) \o from(v + 1)
    IN from(0)

\* get_neighborhood_info: the tree edges of vertex in one direction whose cut value
\* is known (cuts) and those whose cut value is not (missing).
cuts(cv, vertex, direction) ==
    {e \in edges_directed(tree_edges, vertex, direction) : cv[e] # None}

missing(cv, vertex, direction) ==
    {e \in edges_directed(tree_edges, vertex, direction) : cv[e] = None}

opposite(direction) == IF direction = "Incoming" THEN "Outgoing" ELSE "Incoming"

\* Lines 147-150, incoming and outgoing being the directions after the swap.
local_cut_value(cv, vertex, incoming) ==
    1 + Cardinality(edges_directed(graph_edges, vertex, incoming))
      - SumOver(LAMBDA e : cv[e][1], cuts(cv, vertex, incoming), 0)
      + Cardinality(cuts(cv, vertex, incoming))
      - Cardinality(edges_directed(graph_edges, vertex, opposite(incoming)))
      + SumOver(LAMBDA e : cv[e][1], cuts(cv, vertex, opposite(incoming)), 0)
      - Cardinality(cuts(cv, vertex, opposite(incoming)))

\* Lines 132-133: the vertex is skipped.
skips(cv, vertex) ==
    \/ Cardinality(missing(cv, vertex, "Incoming")) > 1
    \/ Cardinality(missing(cv, vertex, "Outgoing")) > 1
    \/ /\ Cardinality(missing(cv, vertex, "Incoming")) = 0
       /\ Cardinality(missing(cv, vertex, "Outgoing")) = 0

\* Lines 138-145: the direction called incoming after the swap, and the edge whose
\* cut value is computed.
swapped_incoming(cv, vertex) ==
    IF Cardinality(missing(cv, vertex, "Outgoing")) = 1 THEN "Outgoing" ELSE "Incoming"

missing_edge(cv, vertex) ==
    CHOOSE e \in missing(cv, vertex, swapped_incoming(cv, vertex)) : TRUE

\* FeasibleTree::leave_edge: the entries with a negative cut value; the HashMap
\* yields them in an order of its own.
negative_cut_values(cv) == {e \in edge_indices : cv[e] # None /\ cv[e][1] < 0}

pairs_along(n) == {p \in (0 .. (n - 1)) \X (0 .. (n - 1)) : p[1] < p[2]}

RECURSIVE pairs_component(_, _)
pairs_component(T, reached) ==
    LET more == {p[2] : p \in {p \in T : p[1] \in reached}}
                   \cup {p[1] : p \in {p \in T : p[2] \in reached}}
    IN IF more \subseteq reached THEN reached ELSE pairs_component(T, reached \cup more)

RECURSIVE in_index_order(_)
in_index_order(T) ==
    IF T = {} THEN <<>>
    ELSE LET p == CHOOSE p \in T :
                     \A q \in T : p[1] < q[1] \/ (p[1] = q[1] /\ p[2] <= q[2])
         IN <<p>> \o in_index_order(T \ {p})

\* The spanning trees on the vertices 0 .. n - 1 whose edges run along the order of
\* the indices.
spanning_trees(n) ==
    {T \in SUBSET pairs_along(n) :
        /\ Cardinality(T) = n - 1
        /\ pairs_component(T, {0}) = 0 .. (n - 1)}

\* The ranks that make every edge of the tree T tight, the first vertex at rank 0.
RECURSIVE tight_ranks(_, _)
tight_ranks(T, rk) ==
    LET nxt == {p \in T : (p[1] \in DOMAIN rk) # (p[2] \in DOMAIN rk)}
    IN IF nxt = {} THEN rk
       ELSE LET p == CHOOSE p \in nxt : TRUE
            IN IF p[1] \in DOMAIN rk
               THEN tight_ranks(T, (p[2] :> (rk[p[1]] + 1)) @@ rk)
               ELSE tight_ranks(T, (p[1] :> (rk[p[2]] - 1)) @@ rk)

\* The edges beside the tree: up to k pairs in index order, none shorter than the
\* minimum length under the ranks rk.
RECURSIVE other_edges(_, _, _)
other_edges(P, rk, k) ==
    IF k = 0 THEN {<<>>}
    ELSE {<<>>} \cup
         UNION {{<<p>> \o x : x \in other_edges({q \in P : q[1] > p[1] \/ (q[1] = p[1] /\ q[2] >= p[2])},
                                                 rk, k - 1)} :
                   p \in {p \in P : rk[p[2]] - rk[p[1]] >= 1}}

\* The graphs handed to init_cutvalues: a spanning tree on n vertices and other
\* edges, up to MaxTreeE edges in all.
tree_builder_graphs(n) ==
    UNION {{in_index_order(T) \o x :
               x \in other_edges(pairs_along(n), tight_ranks(T, 0 :> 0), MaxTreeE - (n - 1))} :
              T \in spanning_trees(n)}

\* make_tight has returned: a spanning tree of tight edges, the other edges of the
\* graph, ranks that satisfy the minimum length on every edge, no cut value yet.
\* init_cutvalues starts with the leaves in its queue.
InitTreeBuilder ==
    /\ node_count \in 1 .. MaxTreeV
    /\ edges \in tree_builder_graphs(node_count)
    /\ is_tree_edge = [e \in edge_indices |-> e < node_count]
    /\ minimum_length = 1
    /\ rank = normalize(tight_ranks({edges[e] : e \in tree_edges}, 0 :> 0))
    /\ cut_value = [e \in edge_indices |-> None]
    /\ low = [v \in node_indices |-> 0]
    /\ lim = [v \in node_indices |-> 0]
    /\ dfs = EmptyDFS
    /\ iterations = 0
    /\ call = "from_edges"
    /\ vertices = <<>>
    /\ input_edges = <<>>
    /\ id_map = <<>>
    /\ layouts = None
    /\ NoLayout
    /\ root_vertices_on_top = FALSE
    /\ layout_y = <<>>
    /\ queue = leaves
    /\ pc = "init_cutvalues"

\* init_cutvalues, lines 119-155: one iteration of the loop, or the return once the
\* queue is empty or every cut value is known.
InitCutvalues ==
    /\ pc = "init_cutvalues"
    /\ IF queue = <<>> \/ Cardinality({e \in edge_indices : cut_value[e] # None})
                             = Cardinality(tree_edges)
       THEN /\ pc' = "rank"
            /\ UNCHANGED <<cut_value, queue>>
       ELSE /\ pc' = "init_cutvalues"
            /\ \E vertex \in {Head(queue)} :
                  IF skips(cut_value, vertex)
                  THEN /\ queue' = Tail(queue)
                       /\ UNCHANGED cut_value
                  ELSE \E edge \in {missing_edge(cut_value, vertex)} :
                          /\ cut_value' =
                                [cut_value EXCEPT ![edge] =
                                    Some(local_cut_value(cut_value, vertex,
                                             swapped_incoming(cut_value, vertex)))]
                          /\ queue' = Append(Tail(queue), other_end(edge, vertex))
    /\ UNCHANGED <<node_count, edges, minimum_length, rank, is_tree_edge, low, lim,
                   dfs, iterations, build_vars, bk_vars, layout_vars>>

\* FeasibleTree::rank, line 193: leave_edge() is evaluated.
LeaveEdge ==
    /\ pc = "rank"
    /\ IF negative_cut_values(cut_value) = {}
       THEN /\ rank' = normalize(rank)
            /\ pc' = "ranked"
       ELSE /\ pc' = "rank_body"
            /\ UNCHANGED rank
    /\ UNCHANGED <<node_count, edges, minimum_length, is_tree_edge, cut_value, low, lim,
                   dfs, iterations, build_vars, bk_vars, layout_vars, queue>>

\* FeasibleTree::rank, lines 193-195: the body of the loop, which is empty.
LoopBody ==
    /\ pc = "rank_body"
    /\ pc' = "rank"
    /\ UNCHANGED <<node_count, edges, rank_vars, build_vars, bk_vars, layout_vars, queue>>

NextTreeBuilder == InitCutvalues \/ LeaveEdge \/ LoopBody

SpecTreeBuilder == InitTreeBuilder /\ [][NextTreeBuilder]_vars

\* The same under its scheduling: a running function takes its next step.
FairSpecTreeBuilder ==
    InitTreeBuilder /\ [][NextTreeBuilder]_vars
        /\ WF_vars(InitCutvalues) /\ WF_vars(LeaveEdge) /\ WF_vars(LoopBody)

\* The same loop under its scheduling: a running rank() takes its next step.
FairSpec == Init /\ [][Next]_vars /\ WF_vars(Exchange) /\ WF_vars(Normalize)

(***************************************************************************)
(* Properties of rank().                                                   *)
(***************************************************************************)
feasible(rk) ==
    \A e \in edge_indices : rk[target(e)] - rk[source(e)] >= minimum_length

\* The objective: the sum over the edges of weight * (rank(head) - rank(tail)).
TotalLength(rk) ==
    SumOver(LAMBDA e : weight(e) * (rk[target(e)] - rk[source(e)]), edge_indices, 0)

\* C1: rank feasibility. Once feasible_tree has run, after every exchange of the
\* loop and when rank() has returned, every edge u->v satisfies
\* rank(v) - rank(u) >= minimum_length.
RankFeasibility == pc \in {"loop", "done"} => feasible(rank)

\* An exchange has run and has changed the length of some edge.
RankFeasibilityWitness ==
    /\ pc = "loop"
    /\ iterations > 0
    /\ \E e \in edge_indices : slack(rank, e) # slack(feasible_tree.rank, e)

\* C5: rank normalization. When rank() has returned on a graph with at least one
\* vertex, the least rank over all vertices is exactly 0.
MinRankIsZero ==
    (pc = "done" /\ node_count > 0) =>
        /\ \A v \in node_indices : rank[v] >= 0
        /\ \E v \in node_indices : rank[v] = 0

\* rank() has returned after an exchange, and normalize has shifted the ranks that
\* update_ranks left.
MinRankIsZeroWitness ==
    /\ pc = "done"
    /\ iterations > 0
    /\ rank # update_ranks(is_tree_edge)

\* Moving the vertices of S one rank down keeps the ranking feasible: no edge out
\* of S is tight.
can_shift(rk, S) ==
    \A e \in edge_indices :
        (source(e) \in S /\ target(e) \notin S) => slack(rk, e) >= 1

\* The change of the total length when the vertices of S move one rank down.
shift_gain(S) ==
    SumOver(LAMBDA e : IF source(e) \notin S /\ target(e) \in S THEN weight(e)
                       ELSE IF source(e) \in S /\ target(e) \notin S
                       THEN 0 - weight(e) ELSE 0,
            edge_indices, 0)

\* The total lengths of the feasible rankings that extend r, a ranking of some of
\* the vertices, with ranks in 0 .. (node_count - 1) * minimum_length (a least
\* ranking can be taken with a tight spanning tree and least rank 0, so it lies in
\* that range). The next vertex placed is the first one next to a placed vertex.
RECURSIVE total_lengths(_)
total_lengths(r) ==
    LET placed == DOMAIN r
        near == {v \in node_indices \ placed :
                    \/ placed = {}
                    \/ \E e \in edge_indices :
                          \/ source(e) = v /\ target(e) \in placed
                          \/ target(e) = v /\ source(e) \in placed}
    IN IF placed = node_indices THEN {TotalLength(r)}
       ELSE LET v == Min(near)
                lo == Max({0} \cup {r[source(e)] + minimum_length :
                              e \in {f \in edge_indices :
                                        target(f) = v /\ source(f) \in placed}})
                hi == Min({(node_count - 1) * minimum_length}
                          \cup {r[target(e)] - minimum_length :
                                   e \in {f \in edge_indices :
                                             source(f) = v /\ target(f) \in placed}})
            IN UNION {total_lengths(r @@ (v :> x)) : x \in lo .. hi}

\* The least total length over all feasible integer rankings of the graph.
MinTotalLength == Min(total_lengths(<<>>))

\* C2: when rank() has returned, the total weighted edge length is the least one
\* over all integer rankings with rank(v) - rank(u) >= minimum_length on every
\* edge, and no tree edge has a negative cut value. The minimum is stated as the
\* absence of a set of vertices that can move one rank down with a shorter total
\* length (the objective is linear and the constraints are differences of ranks,
\* so a shorter feasible ranking r' makes some level set {v : r'(v) - rank(v) >= t}
\* such a set); where the loop has run an exchange, and on the graphs of fewer
\* than MaxV vertices, it is also compared with the search over all rankings.
RankIsOptimal ==
    pc = "done" =>
        /\ \A e \in edge_indices : is_tree_edge[e] => cut_value[e][1] >= 0
        /\ \A S \in SUBSET node_indices : can_shift(rank, S) => shift_gain(S) >= 0
        /\ (iterations > 0 \/ node_count < MaxV) => TotalLength(rank) = MinTotalLength

\* rank() has returned after exchanges that made the total length shorter than
\* the one of the ranking feasible_tree started from.
RankIsOptimalWitness ==
    /\ pc = "done"
    /\ iterations > 0
    /\ TotalLength(rank) < TotalLength(feasible_tree.rank)

\* C3: rank() terminates. Once the loop is entered it runs finitely many
\* iterations, then normalize runs and the function returns (on the graph without
\* vertices normalize runs and panics, which is the subject of C12).
RankTerminates ==
    (pc = "loop") ~> (pc = "done" \/ (node_count = 0 /\ pc = "normalize_panic"))

\* rank() has returned after the loop has run at least one exchange.
RankTerminatesWitness == pc = "done" /\ iterations > 0 /\ leave_edge(cut_value) = 0

\* C12: rank() on a graph with no vertices and no edges returns normally, without
\* a panic, and changes nothing.
EmptyGraphIsNoOp ==
    (node_count = 0 /\ pc \notin {"build", "loop"}) =>
        /\ pc = "done"
        /\ rank = <<>> /\ is_tree_edge = <<>> /\ cut_value = <<>>
        /\ low = <<>> /\ lim = <<>>

(***************************************************************************)
(* Properties of TightTreeDFS::tight_tree.                                 *)
(***************************************************************************)
\* The edges of slack 0 connect all vertices.
tight_edges_connect ==
    tree_component({e \in edge_indices : slack(rank, e) = 0}, {0}) = node_indices

\* No two edges join the same pair of vertices.
no_parallel_edges ==
    \A e, f \in edge_indices : edges[e] = edges[f] => e = f

\* C6: tight-tree size. After tight_tree has run from any start vertex on an
\* initially ranked connected graph (without parallel edges) whose edges of slack
\* 0 connect all vertices, the search holds exactly |V| vertices and exactly
\* |V| - 1 edges, and every edge it holds has slack 0.
TightTreeIsSpanningTree ==
    (pc = "dfs_done" /\ no_parallel_edges /\ tight_edges_connect) =>
        /\ Cardinality(dfs.vertices) = node_count
        /\ Cardinality(dfs.edges) = node_count - 1
        /\ \A e \in dfs.edges : slack(rank, e) = 0

(***************************************************************************)
(* Properties of the entry points of lib.rs.                               *)
(***************************************************************************)
\* Some edge of the input names a tail or a head that is not in vertices.
missing_endpoint ==
    \E k \in 1 .. Len(input_edges) :
        \/ input_edges[k][1] \notin Range(vertices)
        \/ input_edges[k][2] \notin Range(vertices)

\* C7: from_vertices_and_edges panics, and returns neither a builder nor a
\* layout, whenever some edge has a tail or a head that is not an element of
\* vertices, and does not panic when every endpoint is listed: a panic comes
\* only with a missing endpoint, and a builder only without one.
FromVerticesAndEdgesPanics ==
    call = "from_vertices_and_edges" =>
        /\ pc = "panic" => (missing_endpoint /\ layouts = None)
        /\ pc \in {"builder", "built"} => ~missing_endpoint

\* The call has panicked on an edge whose tail is listed and whose head is not.
FromVerticesAndEdgesPanicsWitness ==
    /\ call = "from_vertices_and_edges"
    /\ pc = "panic"
    /\ input_edges[Len(edges) + 1][1] \in Range(vertices)
    /\ input_edges[Len(edges) + 1][2] \notin Range(vertices)

\* C8: an empty input yields an empty result: from_edges(&[]).build() does not
\* panic and returns an empty vector of layouts.
EmptyInputEmptyResult ==
    (call = "from_edges" /\ input_edges = <<>>) =>
        /\ pc # "panic"
        /\ pc = "built" => layouts = Some({})

\* build() has returned on the builder of from_edges(&[]).
EmptyInputEmptyResultWitness ==
    /\ call = "from_edges"
    /\ input_edges = <<>>
    /\ pc = "built"
    /\ layouts = Some({})

(***************************************************************************)
(* Properties of the coordinate phase on the test layout.                  *)
(***************************************************************************)
\* type_1: the edges the test asserts to carry has_type_1_conflict.
type_1 == {<<6, 8>>, <<7, 12>>, <<5, 8>>, <<9, 22>>}

\* C9: an edge is marked has_type_1_conflict iff it crosses an edge both of whose
\* endpoints are dummies; on the test layout the marked edges are (6,8), (7,12),
\* (5,8) and (9,22).
Type1ConflictsMarked ==
    /\ \A e \in edge_indices :
          (pc = "mark" /\ e >= pass.edge) \/ pass.edge = 0 \/
             (has_type_1_conflict[e] <=>
                 \E f \in edge_indices :
                    /\ is_dummy[source(f)] /\ is_dummy[target(f)]
                    /\ rank[source(f)] = rank[source(e)]
                    /\ \/ pos[source(e)] < pos[source(f)] /\ pos[target(e)] > pos[target(f)]
                       \/ pos[source(e)] > pos[source(f)] /\ pos[target(e)] < pos[target(f)])
    /\ pc \in {"marked", "align", "aligned"} =>
          {edges[e] : e \in {e \in edge_indices : has_type_1_conflict[e]}} = type_1

\* Every edge has been examined and the four edges of the test carry the mark.
Type1ConflictsMarkedWitness ==
    /\ pc = "marked"
    /\ \A e \in edge_indices : has_type_1_conflict[e] <=> edges[e] \in type_1
    /\ \E e \in edge_indices : edges[e] = <<9, 22>> /\ has_type_1_conflict[e]

\* alignment_down_right: the root and the align of the vertices 0 .. 25.
alignment_down_right_root ==
    <<0, 1, 0, 3, 4, 5, 6, 7, 4, 9, 7, 11, 6, 7, 11, 18,
      1, 17, 18, 17, 18, 6, 22, 17, 18, 9>>

alignment_down_right_align ==
    <<2, 16, 0, 3, 8, 5, 21, 10, 4, 25, 13, 14, 6, 7, 11, 18,
      1, 19, 20, 23, 24, 12, 22, 17, 15, 9>>

\* alignment_down_left, alignment_up_right, alignment_up_left: the blocks, each a
\* root with the vertices asserted to have it.
alignment_down_left ==
    {<<0, {0, 6}>>, <<1, {1}>>, <<2, {2}>>, <<3, {3}>>, <<16, {16}>>, <<4, {4, 8}>>,
     <<17, {17, 19, 23}>>, <<18, {18, 20, 24}>>, <<5, {5, 9, 25}>>, <<7, {7, 11, 14}>>,
     <<21, {21, 12, 15}>>, <<10, {10, 13}>>, <<22, {22}>>}

alignment_up_right ==
    {<<13, {13, 10}>>, <<14, {14, 11, 7}>>, <<15, {15, 23, 19, 17}>>, <<22, {22}>>,
     <<24, {24, 20, 18, 0}>>, <<12, {12, 21}>>, <<25, {25, 9, 5}>>, <<8, {8, 3}>>,
     <<2, {2}>>, <<16, {16}>>, <<4, {4}>>, <<6, {6}>>, <<1, {1}>>}

alignment_up_left ==
    {<<15, {15, 25, 9}>>, <<14, {14}>>, <<13, {13, 22}>>, <<12, {12, 21, 6}>>,
     <<24, {24, 20, 18}>>, <<23, {23, 19, 17, 1}>>, <<11, {11, 7}>>, <<10, {10}>>,
     <<8, {4, 8}>>, <<0, {0}>>, <<2, {2}>>, <<3, {3}>>, <<16, {16}>>}

has_blocks(rt, blocks) == \A b \in blocks : \A n \in b[2] : rt[n] = b[1]

\* The assertions of the test of the pass (vdir, hdir) hold of the fields rt, al.
test_asserts(vdir, hdir, rt, al) ==
    IF vdir = "Down" /\ hdir = "Right"
    THEN \A v \in node_indices : /\ rt[v] = alignment_down_right_root[v + 1]
                                 /\ al[v] = alignment_down_right_align[v + 1]
    ELSE IF vdir = "Down" THEN has_blocks(rt, alignment_down_left)
    ELSE IF hdir = "Right" THEN has_blocks(rt, alignment_up_right)
    ELSE has_blocks(rt, alignment_up_left)

\* The rule with one median only: the middle neighbour, and of two middle ones the
\* first or the last in preference order; v is aligned with it exactly when their
\* edge has no type-1 conflict and nothing has been aligned with the candidate yet.
single_median(ns, tie) ==
    IF Len(ns) % 2 = 1 THEN ns[(Len(ns) + 1) \div 2]
    ELSE IF tie = "first" THEN ns[Len(ns) \div 2] ELSE ns[Len(ns) \div 2 + 1]

align_vertex_single_median(st, vdir, hdir, tie, v) ==
    LET ns == in_preference_order(hdir, previous_rank_neighbours(vdir, v))
        u == single_median(ns, tie)
    IN IF ns = <<>> THEN st
       ELSE IF /\ ~has_type_1_conflict[edge_between(vdir, u, v)]
               /\ st.align[u] = st.root[u]
            THEN aligned_with(st, st.r, v, u)
            ELSE st

RECURSIVE single_median_alignments(_, _, _, _, _, _)
single_median_alignments(st, vdir, hdir, tie, k, i) ==
    IF k > Len(layers) THEN st
    ELSE With(align_vertex_single_median(st, vdir, hdir, tie,
                                         vertex_of_pass(vdir, hdir, k, i)),
              LAMBDA next :
                 IF i < Len(row_of_pass(vdir, k))
                 THEN single_median_alignments(next, vdir, hdir, tie, k, i + 1)
                 ELSE single_median_alignments(next, vdir, hdir, tie, k + 1, 1))

single_median_asserts(vdir, hdir, tie) ==
    With(single_median_alignments(
             [root |-> [v \in node_indices |-> v],
              align |-> [v \in node_indices |-> v], r |-> -1], vdir, hdir, tie, 1, 1),
         LAMBDA st : test_asserts(vdir, hdir, st.root, st.align))

\* C10, as stated: v picks the one median of its neighbours on the previous rank,
\* ties broken toward the horizontal preference, and is aligned with it exactly when
\* the edge has no type-1 conflict and the candidate's align slot is still free; on
\* the test layout this gives the root and align values the four tests assert.
SingleMedianAlignmentMatchesTests ==
    pc = "aligned" =>
        \/ single_median_asserts(pass.vdir, pass.hdir, "first")
        \/ single_median_asserts(pass.vdir, pass.hdir, "last")

\* C10, amended: v tries the medians of its neighbours on the previous rank, of two
\* the one nearer the start of the preference order first, and is aligned with the
\* first of them whose edge has no type-1 conflict and which stands beyond the last
\* vertex of the previous rank aligned in this rank; on the test layout this gives
\* the root and align values the four tests assert.
VerticalAlignmentMatchesTests ==
    pc = "aligned" => test_asserts(pass.vdir, pass.hdir, root, align)

\* The pass down and right has ended: 12 is aligned with its second median 21, the
\* edge to its first median 7 being marked, and 9 is a block of its own although
\* nothing is aligned with its only neighbour 5, which stands before 6, the vertex
\* 21 was aligned with.
VerticalAlignmentMatchesTestsWitness ==
    /\ pc = "aligned"
    /\ pass.vdir = "Down" /\ pass.hdir = "Right"
    /\ root[12] = root[21] /\ align[21] = 12
    /\ root[9] = 9 /\ align[5] = 5 /\ align[6] = 21

(***************************************************************************)
(* Properties of move_roots_to_top and of the y coordinates.               *)
(***************************************************************************)
\* root_vertices_on_top_disabled: the edges of the test and the asserted y of the
\* vertices 0 .. 4.
root_vertices_on_top_disabled_edges == << <<1, 0>>, <<2, 1>>, <<3, 0>>, <<4, 0>> >>

root_vertices_on_top_disabled_y == <<-20, -10, 0, -10, -10>>

is_source(v) == \A e \in edge_indices : target(e) # v

successors(v) == {target(e) : e \in {e \in edge_indices : source(e) = v}}

\* C11: with root_vertices_on_top disabled a source is not forced to the top rank:
\* every y is -(vertex_spacing * rank) for the rank of rank(), and a source lies
\* exactly minimum_length ranks above its nearest successor; on the edges
\* (1,0), (2,1), (3,0), (4,0) vertex 2 has y = 0, the vertices 1, 3 and 4 have
\* y = -10 and vertex 0 has y = -20.
SourceAboveNearestSuccessor ==
    (pc = "laid_out" /\ ~root_vertices_on_top) =>
        /\ \A v \in node_indices : layout_y[v] = 0 - vertex_spacing * rank[v]
        /\ \A v \in node_indices :
              (is_source(v) /\ successors(v) # {}) =>
                 layout_y[v] = Max({layout_y[w] : w \in successors(v)})
                                   + vertex_spacing * minimum_length
        /\ (edges = root_vertices_on_top_disabled_edges /\ minimum_length = 1) =>
              \A v \in node_indices : layout_y[v] = root_vertices_on_top_disabled_y[v + 1]

\* The layout of the test has been drawn: the sources 3 and 4 lie below the top.
SourceAboveNearestSuccessorWitness ==
    /\ pc = "laid_out"
    /\ ~root_vertices_on_top
    /\ edges = root_vertices_on_top_disabled_edges
    /\ minimum_length = 1
    /\ layout_y[2] = 0 /\ layout_y[3] < 0 /\ layout_y[4] < 0

\* C20: move_roots_to_top, applied to ranks that satisfy the minimum length on
\* every edge and have the minimum 0, sets the rank of every vertex of in-degree 0
\* to 0, leaves every other rank unchanged, and the ranks still satisfy the minimum
\* length on every edge.
MoveRootsToTopKeepsFeasibility ==
    [][(/\ pc = "ranked" /\ pc' = "roots_moved"
        /\ feasible(rank)
        /\ \A v \in node_indices : rank[v] >= 0
        /\ \E v \in node_indices : rank[v] = 0)
       => /\ \A v \in node_indices :
                rank'[v] = IF is_source(v) THEN 0 ELSE rank[v]
          /\ \A e \in edge_indices :
                rank'[target(e)] - rank'[source(e)] >= minimum_length]_vars

\* The roots have been moved in a graph in which a root stands more than
\* minimum_length above each of its successors, one of which has a predecessor
\* that is no root.
MoveRootsToTopKeepsFeasibilityWitness ==
    /\ pc = "roots_moved"
    /\ \E v \in node_indices :
          /\ is_source(v)
          /\ successors(v) # {}
          /\ \A w \in successors(v) : rank[w] - rank[v] > minimum_length
          /\ \E e \in edge_indices :
                target(e) \in successors(v) /\ ~is_source(source(e))

(***************************************************************************)
(* Properties of graphs/p1_layering.                                       *)
(***************************************************************************)
\* C13: initial_ranking(minimum_length) gives every vertex the rank
\* max(0, max over the edges u->v of rank(u) + minimum_length): a vertex without
\* incoming edges has rank 0 and every edge has slack
\* rank(v) - rank(u) - minimum_length >= 0.
InitialRankingIsFeasible ==
    pc = "initial_ranking" =>
        /\ \A v \in node_indices :
              rank[v] = Max({0} \cup {rank[source(e)] + minimum_length :
                                         e \in {e \in edge_indices : target(e) = v}})
        /\ \A e \in edge_indices : slack(rank, e) >= 0

\* The cut value of tree edge e as C14 states it: the weight of e, plus the weight
\* of the other edges from the head side to the tail side, minus the weight of
\* those from the tail side to the head side.
cut_value_head_to_tail(e) ==
    With(tail_component(tree_edges, e), LAMBDA tc :
        weight(e)
        + SumOver(LAMBDA f : IF source(f) \notin tc /\ target(f) \in tc THEN weight(f) ELSE 0,
                  graph_edges, 0)
        - SumOver(LAMBDA f : IF source(f) \in tc /\ target(f) \notin tc THEN weight(f) ELSE 0,
                  graph_edges, 0))

\* init_cutvalues has returned with a cut value for every tree edge and no other.
CutValuesComplete ==
    pc = "rank" => \A e \in edge_indices : (cut_value[e] # None) <=> is_tree_edge[e]

\* The recorded values count the edges from the tail side to the head side
\* positively, as lines 147-150 do at a leaf.
CutValuesTailToHead ==
    pc = "rank" =>
        \A e \in tree_edges : cut_value[e] # None => cut_value[e][1] = cut_value_of(tree_edges, e)

\* The recorded values count the edges from the head side to the tail side
\* positively.
CutValuesHeadToTail ==
    pc = "rank" =>
        \A e \in tree_edges : cut_value[e] # None => cut_value[e][1] = cut_value_head_to_tail(e)

\* A value is computed at a vertex only when exactly one of its tree edges is unknown.
CutValuesAllButOne ==
    (pc = "init_cutvalues" /\ queue # <<>>
        /\ (\E e \in tree_edges : cut_value[e] = None)
        /\ ~skips(cut_value, Head(queue)))
      => Cardinality(missing(cut_value, Head(queue), "Incoming"))
            + Cardinality(missing(cut_value, Head(queue), "Outgoing")) = 1

\* C14: when init_cutvalues returns, every tree edge has a cut value and that value
\* is the weight of the edge plus the non-tree edges crossing its cut one way minus
\* those crossing the other way, whichever of the two ways is counted positively.
InitCutvaluesRecordsCutValues ==
    pc = "rank" =>
        \A e \in tree_edges :
            /\ cut_value[e] # None
            /\ cut_value[e][1] \in {cut_value_of(tree_edges, e), cut_value_head_to_tail(e)}

\* C18: FeasibleTree::rank terminates: once the loop of line 193 is entered, the
\* ranks are eventually normalized and the function returns, also when a cut value
\* is negative.
FeasibleTreeRankTerminates == (pc = "rank") ~> (pc = "ranked")

\* The non-tree edges whose tail lies in the head component and whose head lies in
\* the tail component of the tree without the tree edge e.
head_to_tail_edges(e) ==
    With(tail_component(TreeEdges(is_tree_edge), e), LAMBDA tc :
        {f \in edge_indices :
            ~is_tree_edge[f] /\ source(f) \notin tc /\ target(f) \in tc})

\* C15: enter-edge selection. In every state of the loop of rank() and for every
\* tree edge e, enter_edge returns a non-tree edge from the head component to the
\* tail component of the tree without e, of the least slack among all such edges,
\* and the first of that slack in the order of the edge indices; it finds none
\* exactly when there is no such edge.
EnterEdgeSelection ==
    pc = "loop" =>
        \A e \in TreeEdges(is_tree_edge) :
            With(<<enter_edge(rank, is_tree_edge, low, lim, e), head_to_tail_edges(e)>>,
                 LAMBDA r :
                    IF r[2] = {} THEN r[1] = 0
                    ELSE /\ r[1] \in r[2]
                         /\ \A f \in r[2] : slack(rank, r[1]) <= slack(rank, f)
                         /\ \A f \in r[2] : slack(rank, f) = slack(rank, r[1]) => r[1] <= f)

\* The loop stands at a tree edge of negative cut value for which two candidates
\* share the least slack.
EnterEdgeSelectionWitness ==
    /\ pc = "loop"
    /\ leave_edge(cut_value) # 0
    /\ With(head_to_tail_edges(leave_edge(cut_value)), LAMBDA c :
          \E f, g \in c : f # g /\ slack(rank, f) = slack(rank, g)
                /\ \A h \in c : slack(rank, f) <= slack(rank, h))

\* The loop stands at a tree edge for which the candidates differ in slack.
EnterEdgeSelectionSlacksDiffer ==
    /\ pc = "loop"
    /\ \E e \in TreeEdges(is_tree_edge) :
          With(head_to_tail_edges(e), LAMBDA c :
              \E f, g \in c : slack(rank, f) < slack(rank, g))

\* C16: the tight spanning tree is kept. At every iteration boundary of the loop of
\* rank() on a graph with a vertex, exactly |V| - 1 edges are tree edges, they
\* connect all vertices, each of them has slack 0, and an edge has a cut value
\* exactly when it is a tree edge.
TightTreePreserved ==
    (pc = "loop" /\ node_count > 0) =>
        /\ Cardinality(TreeEdges(is_tree_edge)) = node_count - 1
        /\ tree_component(TreeEdges(is_tree_edge), {0}) = node_indices
        /\ \A e \in TreeEdges(is_tree_edge) : slack(rank, e) = 0
        /\ \A e \in edge_indices : (cut_value[e] # None) <=> is_tree_edge[e]

\* An exchange has replaced a tree edge by an edge that was not tight before it.
TightTreePreservedWitness ==
    /\ pc = "loop"
    /\ iterations > 0
    /\ \E e \in edge_indices :
          /\ is_tree_edge[e] /\ ~feasible_tree.is_tree_edge[e]
          /\ slack(feasible_tree.rank, e) > 0

\* C19: enter_edge does not fail inside rank(). Whenever leave_edge returns an
\* edge in a state of the loop, some non-tree edge runs from the head component to
\* the tail component of that edge and enter_edge finds one; the unwrap of
\* enter_edge never panics.
EnterEdgeNeverFails ==
    /\ pc # "panic"
    /\ (pc = "loop" /\ leave_edge(cut_value) # 0) =>
          /\ head_to_tail_edges(leave_edge(cut_value)) # {}
          /\ enter_edge(rank, is_tree_edge, low, lim, leave_edge(cut_value)) # 0

\* leave_edge has returned an edge of negative cut value, enter_edge has returned
\* an edge for it and the two have been exchanged.
EnterEdgeNeverFailsWitness ==
    /\ pc = "loop"
    /\ iterations > 0
    /\ leave_edge(feasible_tree.cut_value) # 0
    /\ ~is_tree_edge[leave_edge(feasible_tree.cut_value)]
    /\ is_tree_edge[enter_edge(feasible_tree.rank, feasible_tree.is_tree_edge,
                               feasible_tree.low, feasible_tree.lim,
                               leave_edge(feasible_tree.cut_value))]

ExchangeWithPositiveSlack ==
    /\ pc = "loop"
    /\ iterations > 0
    /\ TotalLength(rank) < TotalLength(feasible_tree.rank)

====
